---- MODULE Spec2Model ----
(***************************************************************************)
(* hippo-tracker: a Telegraf middleware that classifies every update,      *)
(* composes a telemetry record from it, prunes the record and POSTs it to  *)
(* a collector.  The repository holds three iterations of the engine:      *)
(*   src/unnamed/part_000   the current iteration   (no suffix)            *)
(*   src/index.js:1-193     the previous iteration  (suffix _v2)           *)
(*   src/index.js:195-394   the first iteration     (suffix _v1)           *)
(* Definitions without a suffix model src/unnamed/part_000.                *)
(***************************************************************************)
EXTENDS Integers, Sequences, FiniteSets, TLC

(***************************************************************************)
(* JavaScript values.  A string is the sequence of its UTF-16 code units   *)
(* (one-character strings here); an object is the sequence of its entries  *)
(* <<key, value>> in insertion order, as Object.entries lists them.        *)
(* Throw is the outcome of an evaluation that raised an exception.         *)
(***************************************************************************)
Null == [t |-> "null"]

Undef == [t |-> "undef"]

Throw == [t |-> "throw"]

Str(s) == [t |-> "str", s |-> s]

Num(n) == [t |-> "num", n |-> n]

Bool(b) == [t |-> "bool", b |-> b]

Arr(items) == [t |-> "arr", items |-> items]

Obj(e) == [t |-> "obj", e |-> e]

\* v == null  /  v != null   (loose equality: null and undefined)
IsNullish(v) == v.t \in {"null", "undef"}

\* typeof v === "object" && v !== null   (arrays included)
IsObjectLike(v) == v.t \in {"obj", "arr"}

\* ToBoolean(v): what  if (v)  and  v ? a : b  test
Truthy(v) ==
  CASE v.t = "null" -> FALSE
    [] v.t = "undef" -> FALSE
    [] v.t = "str" -> Len(v.s) > 0
    [] v.t = "num" -> v.n # 0
    [] v.t = "bool" -> v.b
    [] OTHER -> TRUE

HasKey(o, k) == o.t = "obj" /\ \E i \in 1..Len(o.e) : o.e[i][1] = k

\* o.k on a value that is neither null nor undefined: the own property of
\* an object, undefined on anything else the model holds.
Get(o, k) ==
  IF HasKey(o, k)
    THEN o.e[CHOOSE i \in 1..Len(o.e) : o.e[i][1] = k][2]
    ELSE Undef

\* o?.k
OptGet(o, k) == IF IsNullish(o) THEN Undef ELSE Get(o, k)

\* a ?? b
Coalesce(a, b) == IF IsNullish(a) THEN b ELSE a

RECURSIVE Concat(_)
\* the concatenation of a sequence of strings
Concat(ss) ==
  IF Len(ss) = 0 THEN <<>>
  ELSE IF Len(ss) = 1 THEN ss[1]
  ELSE LET half == Len(ss) \div 2
       IN Concat(SubSeq(ss, 1, half)) \o Concat(SubSeq(ss, half + 1, Len(ss)))

\* s.slice(0, max) for max >= 0
Slice(s, max) == SubSeq(s, 1, IF Len(s) < max THEN Len(s) ELSE max)

(***************************************************************************)
(* JSON.stringify.  KeyChars spells the property names and the string      *)
(* literals of the source that the model uses.                             *)
(***************************************************************************)
KeyChars ==
  [
    bot |-> <<"b", "o", "t">>,
    user |-> <<"u", "s", "e", "r">>,
    chat |-> <<"c", "h", "a", "t">>,
    message |-> <<"m", "e", "s", "s", "a", "g", "e">>,
    callback_query |-> <<"c", "a", "l", "l", "b", "a", "c", "k", "_", "q", "u", "e", "r", "y">>,
    inline_query |-> <<"i", "n", "l", "i", "n", "e", "_", "q", "u", "e", "r", "y">>,
    media_type |-> <<"m", "e", "d", "i", "a", "_", "t", "y", "p", "e">>,
    raw_update |-> <<"r", "a", "w", "_", "u", "p", "d", "a", "t", "e">>,
    event_type |-> <<"e", "v", "e", "n", "t", "_", "t", "y", "p", "e">>,
    tg_date |-> <<"t", "g", "_", "d", "a", "t", "e">>,
    app_date |-> <<"a", "p", "p", "_", "d", "a", "t", "e">>,
    id |-> <<"i", "d">>,
    username |-> <<"u", "s", "e", "r", "n", "a", "m", "e">>,
    first_name |-> <<"f", "i", "r", "s", "t", "_", "n", "a", "m", "e">>,
    last_name |-> <<"l", "a", "s", "t", "_", "n", "a", "m", "e">>,
    language_code |-> <<"l", "a", "n", "g", "u", "a", "g", "e", "_", "c", "o", "d", "e">>,
    type |-> <<"t", "y", "p", "e">>,
    title |-> <<"t", "i", "t", "l", "e">>,
    is_bot |-> <<"i", "s", "_", "b", "o", "t">>,
    update_id |-> <<"u", "p", "d", "a", "t", "e", "_", "i", "d">>,
    text |-> <<"t", "e", "x", "t">>,
    date |-> <<"d", "a", "t", "e">>,
    from |-> <<"f", "r", "o", "m">>,
    photo |-> <<"p", "h", "o", "t", "o">>,
    video |-> <<"v", "i", "d", "e", "o">>,
    document |-> <<"d", "o", "c", "u", "m", "e", "n", "t">>,
    sticker |-> <<"s", "t", "i", "c", "k", "e", "r">>,
    audio |-> <<"a", "u", "d", "i", "o">>,
    voice |-> <<"v", "o", "i", "c", "e">>,
    poll |-> <<"p", "o", "l", "l">>,
    contact |-> <<"c", "o", "n", "t", "a", "c", "t">>,
    location |-> <<"l", "o", "c", "a", "t", "i", "o", "n">>,
    invoice |-> <<"i", "n", "v", "o", "i", "c", "e">>,
    successful_payment |-> <<"s", "u", "c", "c", "e", "s", "s", "f", "u", "l", "_", "p", "a", "y", "m", "e", "n", "t">>,
    file_id |-> <<"f", "i", "l", "e", "_", "i", "d">>,
    file_unique_id |-> <<"f", "i", "l", "e", "_", "u", "n", "i", "q", "u", "e", "_", "i", "d">>,
    width |-> <<"w", "i", "d", "t", "h">>,
    thumbnail |-> <<"t", "h", "u", "m", "b", "n", "a", "i", "l">>,
    currency |-> <<"c", "u", "r", "r", "e", "n", "c", "y">>,
    total_amount |-> <<"t", "o", "t", "a", "l", "_", "a", "m", "o", "u", "n", "t">>,
    data |-> <<"d", "a", "t", "a">>,
    query |-> <<"q", "u", "e", "r", "y">>,
    edited_message |-> <<"e", "d", "i", "t", "e", "d", "_", "m", "e", "s", "s", "a", "g", "e">>,
    channel_post |-> <<"c", "h", "a", "n", "n", "e", "l", "_", "p", "o", "s", "t">>,
    edited_channel_post |-> <<"e", "d", "i", "t", "e", "d", "_", "c", "h", "a", "n", "n", "e", "l", "_", "p", "o", "s", "t">>,
    chosen_inline_result |-> <<"c", "h", "o", "s", "e", "n", "_", "i", "n", "l", "i", "n", "e", "_", "r", "e", "s", "u", "l", "t">>,
    pre_checkout_query |-> <<"p", "r", "e", "_", "c", "h", "e", "c", "k", "o", "u", "t", "_", "q", "u", "e", "r", "y">>,
    shipping_query |-> <<"s", "h", "i", "p", "p", "i", "n", "g", "_", "q", "u", "e", "r", "y">>,
    poll_answer |-> <<"p", "o", "l", "l", "_", "a", "n", "s", "w", "e", "r">>,
    chat_member |-> <<"c", "h", "a", "t", "_", "m", "e", "m", "b", "e", "r">>,
    my_chat_member |-> <<"m", "y", "_", "c", "h", "a", "t", "_", "m", "e", "m", "b", "e", "r">>,
    chat_join_request |-> <<"c", "h", "a", "t", "_", "j", "o", "i", "n", "_", "r", "e", "q", "u", "e", "s", "t">>,
    business_message |-> <<"b", "u", "s", "i", "n", "e", "s", "s", "_", "m", "e", "s", "s", "a", "g", "e">>,
    edited_business_message |-> <<"e", "d", "i", "t", "e", "d", "_", "b", "u", "s", "i", "n", "e", "s", "s", "_", "m", "e", "s", "s", "a", "g", "e">>,
    deleted_business_messages |-> <<"d", "e", "l", "e", "t", "e", "d", "_", "b", "u", "s", "i", "n", "e", "s", "s", "_", "m", "e", "s", "s", "a", "g", "e", "s">>,
    message_reaction |-> <<"m", "e", "s", "s", "a", "g", "e", "_", "r", "e", "a", "c", "t", "i", "o", "n">>,
    message_reaction_count |-> <<"m", "e", "s", "s", "a", "g", "e", "_", "r", "e", "a", "c", "t", "i", "o", "n", "_", "c", "o", "u", "n", "t">>,
    options |-> <<"o", "p", "t", "i", "o", "n", "s">>,
    question |-> <<"q", "u", "e", "s", "t", "i", "o", "n">>,
    media |-> <<"m", "e", "d", "i", "a">>,
    payment |-> <<"p", "a", "y", "m", "e", "n", "t">>,
    invoice_payload |-> <<"i", "n", "v", "o", "i", "c", "e", "_", "p", "a", "y", "l", "o", "a", "d">>,
    telegram_payment_charge_id |-> <<"t", "e", "l", "e", "g", "r", "a", "m", "_", "p", "a", "y", "m", "e", "n", "t", "_", "c", "h", "a", "r", "g", "e", "_", "i", "d">>,
    provider_payment_charge_id |-> <<"p", "r", "o", "v", "i", "d", "e", "r", "_", "p", "a", "y", "m", "e", "n", "t", "_", "c", "h", "a", "r", "g", "e", "_", "i", "d">>,
    description |-> <<"d", "e", "s", "c", "r", "i", "p", "t", "i", "o", "n">>,
    start_parameter |-> <<"s", "t", "a", "r", "t", "_", "p", "a", "r", "a", "m", "e", "t", "e", "r">>,
    payload |-> <<"p", "a", "y", "l", "o", "a", "d">>,
    shipping_address |-> <<"s", "h", "i", "p", "p", "i", "n", "g", "_", "a", "d", "d", "r", "e", "s", "s">>,
    tags |-> <<"t", "a", "g", "s">>,
    foo |-> <<"f", "o", "o">>,
    unknown |-> <<"u", "n", "k", "n", "o", "w", "n">>,
    text_message |-> <<"t", "e", "x", "t", "_", "m", "e", "s", "s", "a", "g", "e">>,
    photo_message |-> <<"p", "h", "o", "t", "o", "_", "m", "e", "s", "s", "a", "g", "e">>,
    video_message |-> <<"v", "i", "d", "e", "o", "_", "m", "e", "s", "s", "a", "g", "e">>,
    document_message |-> <<"d", "o", "c", "u", "m", "e", "n", "t", "_", "m", "e", "s", "s", "a", "g", "e">>,
    audio_message |-> <<"a", "u", "d", "i", "o", "_", "m", "e", "s", "s", "a", "g", "e">>,
    voice_message |-> <<"v", "o", "i", "c", "e", "_", "m", "e", "s", "s", "a", "g", "e">>,
    sticker_message |-> <<"s", "t", "i", "c", "k", "e", "r", "_", "m", "e", "s", "s", "a", "g", "e">>,
    poll_message |-> <<"p", "o", "l", "l", "_", "m", "e", "s", "s", "a", "g", "e">>,
    contact_message |-> <<"c", "o", "n", "t", "a", "c", "t", "_", "m", "e", "s", "s", "a", "g", "e">>,
    location_message |-> <<"l", "o", "c", "a", "t", "i", "o", "n", "_", "m", "e", "s", "s", "a", "g", "e">>
  ]

Digits == <<"0", "1", "2", "3", "4", "5", "6", "7", "8", "9">>

RECURSIVE NumChars(_)
\* String(n) for an integer n
NumChars(n) ==
  IF n < 0 THEN <<"-">> \o NumChars(-n)
  ELSE IF n < 10 THEN <<Digits[n + 1]>>
  ELSE NumChars(n \div 10) \o <<Digits[(n % 10) + 1]>>

\* the JSON string literal of s: quotes around it, quote and backslash escaped
Quote(s) ==
  <<"\"">>
  \o Concat([i \in 1..Len(s) |->
       IF s[i] = "\"" THEN <<"\\", "\"">>
       ELSE IF s[i] = "\\" THEN <<"\\", "\\">>
       ELSE <<s[i]>>])
  \o <<"\"">>

\* parts.join(",")
Join(parts) ==
  Concat([i \in 1..Len(parts) |-> IF i = 1 THEN parts[i] ELSE <<",">> \o parts[i]])

RECURSIVE Serialize(_)
\* the text JSON.stringify writes for v inside a document: undefined is
\* written null as an array element and its key is left out of an object
Serialize(v) ==
  CASE v.t = "str" -> Quote(v.s)
    [] v.t = "num" -> NumChars(v.n)
    [] v.t = "bool" -> IF v.b THEN <<"t", "r", "u", "e">> ELSE <<"f", "a", "l", "s", "e">>
    [] v.t = "arr" ->
         <<"[">> \o Join([i \in 1..Len(v.items) |-> Serialize(v.items[i])]) \o <<"]">>
    [] v.t = "obj" ->
         LET present == SelectSeq(v.e, LAMBDA kv : kv[2].t # "undef")
         IN <<"{">>
            \o Join([i \in 1..Len(present) |->
                 Quote(KeyChars[present[i][1]]) \o <<":">> \o Serialize(present[i][2])])
            \o <<"}">>
    [] OTHER -> <<"n", "u", "l", "l">>

\* JSON.stringify(v): a string, or undefined for undefined
JSONstringify(v) == IF v.t = "undef" THEN Undef ELSE Str(Serialize(v))

(***************************************************************************)
(* Null Pruner                                                             *)
(***************************************************************************)
RECURSIVE removeNulls_rawCheck(_)
\* removeNulls with empty objects dropped as its comment announces, but the
\* emptiness tested on the value as it was before it was pruned
removeNulls_rawCheck(obj) ==
  IF obj.t = "arr"
    THEN Arr([i \in 1..Len(obj.items) |-> removeNulls_rawCheck(obj.items[i])])
  ELSE IF obj.t = "obj"
    THEN LET kept == SelectSeq(obj.e, LAMBDA kv : ~IsNullish(kv[2]) /\ kv[2] # Obj(<<>>))
         IN Obj(SelectSeq([i \in 1..Len(kept) |-> <<kept[i][1], removeNulls_rawCheck(kept[i][2])>>],
                          LAMBDA kv : ~IsNullish(kv[2])))
  ELSE obj

RECURSIVE removeNulls(_)
\* src/unnamed/part_000: arrays are mapped element-wise and keep their nulls; an
\* object loses the keys whose pruned value is null or undefined and is
\* returned even when no key is left
removeNulls(obj) ==
  IF obj.t = "arr"
    THEN Arr([i \in 1..Len(obj.items) |-> removeNulls(obj.items[i])])
  ELSE IF obj.t = "obj"
    THEN Obj(SelectSeq([i \in 1..Len(obj.e) |-> <<obj.e[i][1], removeNulls(obj.e[i][2])>>],
                       LAMBDA kv : ~IsNullish(kv[2])))
  ELSE obj

RECURSIVE removeNulls_v2(_)
\* index.js:182: arrays drop the elements pruned to null; an object also
\* drops the keys pruned to an empty array and becomes null when no key is left
removeNulls_v2(obj) ==
  IF obj.t = "arr"
    THEN Arr(SelectSeq([i \in 1..Len(obj.items) |-> removeNulls_v2(obj.items[i])],
                       LAMBDA v : ~IsNullish(v)))
  ELSE IF obj.t = "obj"
    THEN LET cleaned ==
               SelectSeq([i \in 1..Len(obj.e) |-> <<obj.e[i][1], removeNulls_v2(obj.e[i][2])>>],
                         LAMBDA kv : ~IsNullish(kv[2])
                                     /\ ~(kv[2].t = "arr" /\ Len(kv[2].items) = 0))
         IN IF Len(cleaned) > 0 THEN Obj(cleaned) ELSE Null
  ELSE obj

(***************************************************************************)
(* Field Redactor and Recursive Sanitizer                                  *)
(***************************************************************************)
\* "...[truncated]"
TruncationMarker ==
  <<".", ".", ".", "[", "t", "r", "u", "n", "c", "a", "t", "e", "d", "]">>

MediaKeys ==
  {"photo", "video", "document", "voice", "sticker", "animation", "audio",
   "video_note", "new_chat_photo", "thumb", "thumbnail"}

\* safeText(text, max)
safeText(text, max) ==
  IF text.t = "str" THEN Str(Slice(text.s, max))
  ELSE IF IsObjectLike(text) THEN Str(Slice(Serialize(text), max))
  ELSE Null

\* the string branch with  val.length >= maxTextLength  as its test
limitString_offByOne(val, maxTextLength) ==
  IF Len(val.s) >= maxTextLength
    THEN Str(Slice(val.s, maxTextLength) \o TruncationMarker)
    ELSE val

\* the string branch of sanitize: 1. Limit strings
limitString(val, maxTextLength) ==
  IF Len(val.s) > maxTextLength
    THEN Str(Slice(val.s, maxTextLength) \o TruncationMarker)
    ELSE val

\* the outcome for a key that the loop leaves unassigned
Skip == [t |-> "skip"]

\* the arrow function with the item spread into the pair
idPair_spread(v) ==
  IF IsNullish(v) THEN Throw
  ELSE IF v.t = "obj"
    THEN Obj(v.e \o << <<"file_id", Get(v, "file_id")>>,
                       <<"file_unique_id", Get(v, "file_unique_id")>> >>)
  ELSE Obj(<< <<"file_id", Get(v, "file_id")>>,
              <<"file_unique_id", Get(v, "file_unique_id")>> >>)

\* (v) => ({ file_id: v.file_id, file_unique_id: v.file_unique_id })
\* Reading a property of null or undefined raises a TypeError.
idPair(v) ==
  IF IsNullish(v) THEN Throw
  ELSE Obj(<< <<"file_id", Get(v, "file_id")>>,
              <<"file_unique_id", Get(v, "file_unique_id")>> >>)

\* 2. Left only file_id: the value stored under a media key, Skip when
\* the value is neither an array nor an object and nothing is stored
stripMedia(val) ==
  IF val.t = "arr"
    THEN LET pairs == [i \in 1..Len(val.items) |-> idPair(val.items[i])]
         IN IF \E i \in 1..Len(pairs) : pairs[i] = Throw THEN Throw ELSE Arr(pairs)
  ELSE IF val.t = "obj" THEN idPair(val)
  ELSE Skip

RECURSIVE sanitize(_, _)
\* the inner function of sanitizeUpdate
sanitize(obj, maxTextLength) ==
  IF obj.t = "arr"
    THEN LET items == [i \in 1..Len(obj.items) |-> sanitize(obj.items[i], maxTextLength)]
         IN IF \E i \in 1..Len(items) : items[i] = Throw THEN Throw ELSE Arr(items)
  ELSE IF obj.t = "obj"
    THEN LET entry(kv) ==
               IF kv[2].t = "str" THEN limitString(kv[2], maxTextLength)
               ELSE IF kv[1] \in MediaKeys THEN stripMedia(kv[2])
               ELSE sanitize(kv[2], maxTextLength)
             out == [i \in 1..Len(obj.e) |-> <<obj.e[i][1], entry(obj.e[i])>>]
         IN IF \E i \in 1..Len(out) : out[i][2] = Throw THEN Throw
            ELSE Obj(SelectSeq(out, LAMBDA kv : kv[2] # Skip))
  ELSE obj

sanitizeUpdate(update, maxTextLength) == sanitize(update, maxTextLength)


(***************************************************************************)
(* The Telegraf context.  ctx is [update |-> the raw update]; the getters  *)
(* the source reads (ctx.message, ctx.from, ...) are Telegraf's and each   *)
(* reads the update.                                                       *)
(***************************************************************************)
\* the string literal "k" of the source
Lit(k) == Str(KeyChars[k])

RECURSIVE FirstOf(_, _)
\* a ?? b ?? ... ?? undefined over a sequence of values
FirstOf(vals, dflt) ==
  IF vals = <<>> THEN dflt
  ELSE IF IsNullish(Head(vals)) THEN FirstOf(Tail(vals), dflt)
  ELSE Head(vals)

ctx_message(ctx) == OptGet(ctx.update, "message")

ctx_editedMessage(ctx) == OptGet(ctx.update, "edited_message")

ctx_channelPost(ctx) == OptGet(ctx.update, "channel_post")

ctx_editedChannelPost(ctx) == OptGet(ctx.update, "edited_channel_post")

ctx_callbackQuery(ctx) == OptGet(ctx.update, "callback_query")

ctx_inlineQuery(ctx) == OptGet(ctx.update, "inline_query")

ctx_businessMessage(ctx) == OptGet(ctx.update, "business_message")

ctx_editedBusinessMessage(ctx) == OptGet(ctx.update, "edited_business_message")

ctx_chatMember(ctx) == OptGet(ctx.update, "chat_member")

ctx_myChatMember(ctx) == OptGet(ctx.update, "my_chat_member")

ctx_preCheckoutQuery(ctx) == OptGet(ctx.update, "pre_checkout_query")

ctx_shippingQuery(ctx) == OptGet(ctx.update, "shipping_query")

\* ctx.from: the sender of whichever payload the update carries
ctx_from(ctx) ==
  OptGet(FirstOf(<<ctx_message(ctx), ctx_editedMessage(ctx), ctx_callbackQuery(ctx),
                   ctx_inlineQuery(ctx), ctx_shippingQuery(ctx), ctx_preCheckoutQuery(ctx),
                   ctx_chatMember(ctx), ctx_myChatMember(ctx)>>, Undef),
         "from")

\* ctx.chat: the chat of whichever message-like payload the update carries
ctx_chat(ctx) ==
  OptGet(FirstOf(<<ctx_message(ctx), ctx_editedMessage(ctx),
                   OptGet(ctx_callbackQuery(ctx), "message"),
                   ctx_channelPost(ctx), ctx_editedChannelPost(ctx),
                   ctx_chatMember(ctx), ctx_myChatMember(ctx)>>, Undef),
         "chat")

(***************************************************************************)
(* Event Classifier                                                        *)
(***************************************************************************)
\* the keys detectEventType tests, in the order of its if statements
EventKeys ==
  <<"message", "callback_query", "inline_query", "chosen_inline_result", "poll",
    "poll_answer", "pre_checkout_query", "shipping_query", "chat_join_request",
    "chat_member", "my_chat_member", "business_message", "edited_business_message",
    "deleted_business_messages", "message_reaction", "message_reaction_count">>

\* a classifier that counts a key only when it holds an object (typeof
\* value === "object"), so that the value decides, not its truthiness
detectEventType_typeof(ctx) ==
  LET update == ctx.update
      hits == SelectSeq(EventKeys, LAMBDA k : Get(update, k).t \in {"obj", "arr"})
  IN IF IsNullish(update) THEN Throw
     ELSE IF hits # <<>> THEN Lit(Head(hits))
     ELSE Lit("unknown")

\* detectEventType(ctx) of src/unnamed/part_000; update.message on a missing update
\* raises a TypeError
detectEventType(ctx) ==
  LET update == ctx.update
      hits == SelectSeq(EventKeys, LAMBDA k : Truthy(Get(update, k)))
  IN IF IsNullish(update) THEN Throw
     ELSE IF hits # <<>> THEN Lit(Head(hits))
     ELSE Lit("unknown")

\* the sub-kinds of a message that index.js:237 tests, in order
MessageKinds_v1 ==
  << <<"successful_payment", "successful_payment">>, <<"invoice", "invoice">>,
     <<"text", "text_message">>, <<"photo", "photo_message">>,
     <<"video", "video_message">>, <<"document", "document_message">>,
     <<"audio", "audio_message">>, <<"voice", "voice_message">>,
     <<"sticker", "sticker_message">>, <<"poll", "poll_message">>,
     <<"contact", "contact_message">>, <<"location", "location_message">> >>

\* the top-level keys index.js:252 tests after message, in order
EventKeys_v1 ==
  <<"edited_message", "channel_post", "edited_channel_post", "inline_query",
    "chosen_inline_result", "callback_query", "shipping_query", "pre_checkout_query",
    "poll", "poll_answer", "my_chat_member", "chat_member", "chat_join_request">>

\* detectEventType(ctx) of index.js:234
detectEventType_v1(ctx) ==
  LET update == ctx.update
      message == Get(update, "message")
      kinds == SelectSeq(MessageKinds_v1, LAMBDA p : Truthy(Get(message, p[1])))
      hits == SelectSeq(EventKeys_v1, LAMBDA k : Truthy(Get(update, k)))
  IN IF IsNullish(update) THEN Throw
     ELSE IF Truthy(message)
       THEN IF kinds # <<>> THEN Lit(Head(kinds)[2]) ELSE Lit("message")
     ELSE IF hits # <<>> THEN Lit(Head(hits))
     ELSE Lit("unknown")

\* extractTgDate(ctx)
extractTgDate(ctx) ==
  FirstOf(<<OptGet(ctx_message(ctx), "date"),
            OptGet(ctx_editedMessage(ctx), "date"),
            OptGet(ctx_channelPost(ctx), "date"),
            OptGet(ctx_editedChannelPost(ctx), "date"),
            OptGet(OptGet(ctx_callbackQuery(ctx), "message"), "date"),
            OptGet(ctx_businessMessage(ctx), "date"),
            OptGet(ctx_editedBusinessMessage(ctx), "date"),
            OptGet(ctx_chatMember(ctx), "date"),
            OptGet(ctx_myChatMember(ctx), "date")>>, Null)

(***************************************************************************)
(* Payload Composer                                                        *)
(***************************************************************************)
\* the raw_update field without its try/catch
rawUpdate_noCatch(ctx, includeRawUpdate, maxTextLength) ==
  IF includeRawUpdate
    THEN LET sanitized == sanitizeUpdate(ctx.update, maxTextLength)
         IN IF sanitized = Throw THEN Throw ELSE JSONstringify(sanitized)
    ELSE Null

\* the raw_update field of safeCtx: the sanitized update serialized, null
\* when sanitizing throws or when includeRawUpdate is off
rawUpdate(ctx, includeRawUpdate, maxTextLength) ==
  IF includeRawUpdate
    THEN LET sanitized == sanitizeUpdate(ctx.update, maxTextLength)
         IN IF sanitized = Throw THEN Null ELSE JSONstringify(sanitized)
    ELSE Null

\* safeCtx(ctx, bot, { includeRawUpdate, maxTextLength })
safeCtx(ctx, bot, includeRawUpdate, maxTextLength) ==
  LET botId0 == Coalesce(OptGet(bot.botInfo, "id"), Null)
      botUsername0 == Coalesce(OptGet(bot.botInfo, "username"), Null)
      botFrom ==
        FirstOf(<<OptGet(OptGet(ctx.update, "message"), "from"),
                  OptGet(OptGet(OptGet(ctx.update, "callback_query"), "message"), "from"),
                  OptGet(OptGet(ctx.update, "business_message"), "from"),
                  OptGet(OptGet(ctx.update, "edited_business_message"), "from")>>, Null)
      fallback == (~Truthy(botId0) \/ ~Truthy(botUsername0))
                  /\ Truthy(OptGet(botFrom, "is_bot"))
      botId == IF fallback THEN Coalesce(botId0, Get(botFrom, "id")) ELSE botId0
      botUsername ==
        IF fallback THEN Coalesce(botUsername0, Get(botFrom, "username")) ELSE botUsername0
      from == ctx_from(ctx)
      chat == ctx_chat(ctx)
      message == ctx_message(ctx)
      raw == rawUpdate(ctx, includeRawUpdate, maxTextLength)
      payload ==
        Obj(<< <<"bot", Obj(<< <<"id", botId>>, <<"username", botUsername>> >>)>>,
               <<"user", Obj(<< <<"id", Coalesce(OptGet(from, "id"), Null)>>,
                                <<"username", Coalesce(OptGet(from, "username"), Null)>>,
                                <<"first_name", Coalesce(OptGet(from, "first_name"), Null)>>,
                                <<"last_name", Coalesce(OptGet(from, "last_name"), Null)>>,
                                <<"language_code", Coalesce(OptGet(from, "language_code"), Null)>> >>)>>,
               <<"chat", Obj(<< <<"id", Coalesce(OptGet(chat, "id"), Null)>>,
                                <<"type", Coalesce(OptGet(chat, "type"), Null)>>,
                                <<"title", Coalesce(OptGet(chat, "title"), Null)>>,
                                <<"username", Coalesce(OptGet(chat, "username"), Null)>> >>)>>,
               <<"message", safeText(OptGet(message, "text"), maxTextLength)>>,
               <<"callback_query", safeText(OptGet(ctx_callbackQuery(ctx), "data"), maxTextLength)>>,
               <<"inline_query", safeText(OptGet(ctx_inlineQuery(ctx), "query"), maxTextLength)>>,
               <<"media_type",
                 IF Truthy(OptGet(message, "photo")) THEN Lit("photo")
                 ELSE IF Truthy(OptGet(message, "video")) THEN Lit("video")
                 ELSE IF Truthy(OptGet(message, "document")) THEN Lit("document")
                 ELSE IF Truthy(OptGet(message, "sticker")) THEN Lit("sticker")
                 ELSE Null>>,
               <<"raw_update", raw>> >>)
  IN IF raw = Throw THEN Throw ELSE removeNulls(payload)

\* lines 32-43 of the middleware: the record that is sent, or Throw
buildPayload(ctx, bot, includeRawUpdate, maxTextLength, now) ==
  LET eventType == detectEventType(ctx)
      safeData == safeCtx(ctx, bot, includeRawUpdate, maxTextLength)
  IN IF eventType = Throw \/ safeData = Throw THEN Throw
     ELSE Obj(SelectSeq(safeData.e,
                        LAMBDA kv : kv[1] \notin {"event_type", "tg_date", "app_date"})
              \o << <<"event_type", eventType>>,
                    <<"tg_date", extractTgDate(ctx)>>,
                    <<"app_date", Num(now)>> >>)

(***************************************************************************)
(* The first iteration's composer (src/index.js:276)                       *)
(***************************************************************************)
\* the text fields are cut to 200 code units
TextLimit_v1 == 200

\* the snapshot of a non-financial event is cut to 500 code units
RawLimit_v1 == 500

FinancialTypes_v1 ==
  {Lit("successful_payment"), Lit("invoice"), Lit("pre_checkout_query"), Lit("shipping_query")}

\* v?.slice(0, 200) ?? null: a TypeError on a value that has no slice method
optSlice_v1(v) ==
  IF IsNullish(v) THEN Null
  ELSE IF v.t = "str" THEN Str(Slice(v.s, TextLimit_v1))
  ELSE IF v.t = "arr" THEN Arr(Slice(v.items, TextLimit_v1))
  ELSE Throw

\* v.map((p) => p[field]): a TypeError when v is no array or an item is null
mapField_v1(v, field) ==
  IF v.t # "arr" THEN Throw
  ELSE IF \E i \in 1..Len(v.items) : IsNullish(v.items[i]) THEN Throw
  ELSE Arr([i \in 1..Len(v.items) |-> Get(v.items[i], field)])

\* the entries of an object literal that copies the named fields of src
pick_v1(src, names) == Obj([i \in 1..Len(names) |-> <<names[i][1], Get(src, names[i][2])>>])

Same(names) == [i \in 1..Len(names) |-> <<names[i], names[i]>>]

\* the payment field: the first of successful_payment, invoice,
\* pre_checkout_query, shipping_query that is there
payment_v1(ctx) ==
  LET message == ctx_message(ctx)
      sp == OptGet(message, "successful_payment")
      inv == OptGet(message, "invoice")
      pcq == ctx_preCheckoutQuery(ctx)
      sq == ctx_shippingQuery(ctx)
  IN IF Truthy(sp)
       THEN pick_v1(sp, Same(<<"currency", "total_amount", "invoice_payload",
                               "telegram_payment_charge_id", "provider_payment_charge_id">>))
     ELSE IF Truthy(inv)
       THEN pick_v1(inv, Same(<<"title", "description", "currency", "total_amount",
                                "start_parameter", "payload">>))
     ELSE IF Truthy(pcq)
       THEN pick_v1(pcq, << <<"id", "id">>, <<"currency", "currency">>,
                            <<"total_amount", "total_amount">>, <<"payload", "invoice_payload">> >>)
     ELSE IF Truthy(sq)
       THEN pick_v1(sq, << <<"id", "id">>, <<"payload", "invoice_payload">>,
                           <<"shipping_address", "shipping_address">> >>)
     ELSE Null

\* the raw_update field: the whole update serialized for a financial event,
\* its first 500 code units otherwise
rawUpdate_v1(ctx, eventType) ==
  IF eventType \in FinancialTypes_v1 THEN JSONstringify(ctx.update)
  ELSE IF Truthy(ctx.update) THEN Str(Slice(Serialize(ctx.update), RawLimit_v1))
  ELSE Null

\* safeCtx(ctx, bot) of index.js:276: the pruned record, or Throw
safeCtx_v1(ctx, bot, now) ==
  LET eventType == detectEventType_v1(ctx)
      message == ctx_message(ctx)
      from == ctx_from(ctx)
      chat == ctx_chat(ctx)
      text == optSlice_v1(OptGet(message, "text"))
      data == optSlice_v1(OptGet(ctx_callbackQuery(ctx), "data"))
      query == optSlice_v1(OptGet(ctx_inlineQuery(ctx), "query"))
      photo0 == OptGet(message, "photo")
      photo == IF IsNullish(photo0) THEN Null ELSE mapField_v1(photo0, "file_id")
      poll0 == OptGet(message, "poll")
      options == IF Truthy(poll0)
                   THEN IF IsNullish(Get(poll0, "options")) THEN Throw
                        ELSE mapField_v1(Get(poll0, "options"), "text")
                   ELSE Null
      fileId(k) == Coalesce(OptGet(OptGet(message, k), "file_id"), Null)
      payload ==
        Obj(<< <<"bot", Obj(<< <<"username", Coalesce(OptGet(bot.botInfo, "username"), Null)>>,
                               <<"id", Coalesce(OptGet(bot.botInfo, "id"), Null)>> >>)>>,
               <<"user", Obj(<< <<"id", Coalesce(OptGet(from, "id"), Null)>>,
                                <<"username", Coalesce(OptGet(from, "username"), Null)>> >>)>>,
               <<"chat", Obj(<< <<"id", Coalesce(OptGet(chat, "id"), Null)>>,
                                <<"type", Coalesce(OptGet(chat, "type"), Null)>> >>)>>,
               <<"event_type", eventType>>,
               <<"message", text>>,
               <<"callback_query", data>>,
               <<"inline_query", query>>,
               <<"tg_date",
                 FirstOf(<<OptGet(OptGet(ctx.update, "message"), "date"),
                           OptGet(OptGet(ctx.update, "edited_message"), "date"),
                           OptGet(OptGet(ctx.update, "channel_post"), "date"),
                           OptGet(OptGet(ctx.update, "edited_channel_post"), "date")>>, Null)>>,
               <<"app_date", Num(now)>>,
               <<"media",
                 Obj(<< <<"photo", photo>>,
                        <<"document", fileId("document")>>,
                        <<"video", fileId("video")>>,
                        <<"audio", fileId("audio")>>,
                        <<"voice", fileId("voice")>>,
                        <<"sticker", fileId("sticker")>>,
                        <<"contact", Coalesce(OptGet(message, "contact"), Null)>>,
                        <<"location", Coalesce(OptGet(message, "location"), Null)>>,
                        <<"poll", IF Truthy(poll0)
                                    THEN Obj(<< <<"question", Get(poll0, "question")>>,
                                                <<"options", options>> >>)
                                    ELSE Null>> >>)>>,
               <<"payment", payment_v1(ctx)>>,
               <<"raw_update", rawUpdate_v1(ctx, eventType)>> >>)
  IN IF Throw \in {eventType, text, data, query, photo, options} THEN Throw
     ELSE removeNulls_v2(payload)

(***************************************************************************)
(* The previous iteration's classifier and composer (src/index.js:81-175)  *)
(***************************************************************************)
\* detectEventType(ctx) of index.js:81: the tests of the current iteration
detectEventType_v2(ctx) ==
  LET update == ctx.update
      hits == SelectSeq(EventKeys, LAMBDA k : Truthy(Get(update, k)))
  IN IF IsNullish(update) THEN Throw
     ELSE IF hits # <<>> THEN Lit(Head(hits))
     ELSE Lit("unknown")

\* extractTgDate(ctx) of index.js:110: no chat-member dates
extractTgDate_v2(ctx) ==
  FirstOf(<<OptGet(ctx_message(ctx), "date"),
            OptGet(ctx_editedMessage(ctx), "date"),
            OptGet(ctx_channelPost(ctx), "date"),
            OptGet(ctx_editedChannelPost(ctx), "date"),
            OptGet(OptGet(ctx_callbackQuery(ctx), "message"), "date"),
            OptGet(ctx_businessMessage(ctx), "date"),
            OptGet(ctx_editedBusinessMessage(ctx), "date")>>, Null)

\* safeText(text, max) of index.js:135: null for anything but a string
safeText_v2(text, max) ==
  IF text.t = "str" THEN Str(Slice(text.s, max)) ELSE Null

\* the raw_update field of index.js:164: the update serialized as it is
rawUpdate_v2(ctx, includeRawUpdate) ==
  IF includeRawUpdate /\ Truthy(ctx.update) THEN JSONstringify(ctx.update) ELSE Null

\* safeCtx(ctx, bot, { includeRawUpdate, maxTextLength }) of index.js:134:
\* the pruned record, null when nothing is left
safeCtx_v2(ctx, telegram, includeRawUpdate, maxTextLength) ==
  LET from == ctx_from(ctx)
      chat == ctx_chat(ctx)
  IN removeNulls_v2(
       Obj(<< <<"bot", Obj(<< <<"username", Coalesce(OptGet(OptGet(telegram, "botInfo"), "username"), Null)>>,
                              <<"id", Coalesce(OptGet(OptGet(telegram, "botInfo"), "id"), Null)>> >>)>>,
              <<"user", Obj(<< <<"id", Coalesce(OptGet(from, "id"), Null)>>,
                               <<"username", Coalesce(OptGet(from, "username"), Null)>>,
                               <<"first_name", Coalesce(OptGet(from, "first_name"), Null)>>,
                               <<"last_name", Coalesce(OptGet(from, "last_name"), Null)>>,
                               <<"language_code", Coalesce(OptGet(from, "language_code"), Null)>> >>)>>,
              <<"chat", Obj(<< <<"id", Coalesce(OptGet(chat, "id"), Null)>>,
                               <<"type", Coalesce(OptGet(chat, "type"), Null)>>,
                               <<"title", Coalesce(OptGet(chat, "title"), Null)>>,
                               <<"username", Coalesce(OptGet(chat, "username"), Null)>> >>)>>,
              <<"message", safeText_v2(OptGet(ctx_message(ctx), "text"), maxTextLength)>>,
              <<"callback_query", safeText_v2(OptGet(ctx_callbackQuery(ctx), "data"), maxTextLength)>>,
              <<"inline_query", safeText_v2(OptGet(ctx_inlineQuery(ctx), "query"), maxTextLength)>>,
              <<"raw_update", rawUpdate_v2(ctx, includeRawUpdate)>> >>))

\* lines 31-43 of the middleware: the record that is sent, or Throw;
\* spreading a null safeData adds no key
buildPayload_v2(ctx, telegram, includeRawUpdate, maxTextLength, now) ==
  LET eventType == detectEventType_v2(ctx)
      safeData == safeCtx_v2(ctx, telegram, includeRawUpdate, maxTextLength)
      spread == IF safeData.t = "obj" THEN safeData.e ELSE <<>>
  IN IF eventType = Throw THEN Throw
     ELSE Obj(SelectSeq(spread, LAMBDA kv : kv[1] \notin {"event_type", "tg_date", "app_date"})
              \o << <<"event_type", eventType>>,
                    <<"tg_date", extractTgDate_v2(ctx)>>,
                    <<"app_date", Num(now)>> >>)

(***************************************************************************)
(* Configuration: the options hippoTrack is constructed with               *)
(***************************************************************************)
MaxTextLength == 3

(***************************************************************************)
(* Inputs of the pure functions: trees of nulls, scalars, strings,         *)
(* sequences and mappings, grown from a leaf by wrapping.                  *)
(***************************************************************************)
MaxDepth == 2

SampleText == <<"a", "\"", "b", "c", "d", "e", "f", "g", "h", "i", "j", "k">>

StrOfLen(n) == Str(SubSeq(SampleText, 1, n))

LongStr == StrOfLen(MaxTextLength + 2)

MediaItem ==
  Obj(<< <<"file_id", StrOfLen(1)>>, <<"file_unique_id", LongStr>>,
         <<"width", Num(90)>>, <<"thumbnail", Obj(<< <<"file_id", StrOfLen(2)>>, <<"width", Num(3)>> >>)>> >>)

Leaves ==
  {Null, Num(7), Arr(<<>>), Obj(<<>>), MediaItem,
   StrOfLen(0), StrOfLen(MaxTextLength), StrOfLen(MaxTextLength + 1), LongStr}

Siblings == {Null, MediaItem}

WrapKeys == {"foo", "photo", "thumbnail"}

Wraps(v) ==
  {Arr(<<v>>)}
  \cup {Arr(<<v, s>>) : s \in Siblings}
  \cup {Arr(<<s, v>>) : s \in Siblings}
  \cup {Obj(<< <<k, v>> >>) : k \in WrapKeys}
  \cup {Obj(<< <<k, v>>, <<"tags", s>> >>) : k \in WrapKeys, s \in Siblings}

Unset == [t |-> "unset"]

(***************************************************************************)
(* Inputs of the middleware: the updates the bot runtime hands over.       *)
(***************************************************************************)
\* an object literal without the entries whose value is Undef (key absent)
Mk(e) == Obj(SelectSeq(e, LAMBDA kv : kv[2] # Undef))

User1 ==
  Obj(<< <<"id", Num(5)>>, <<"is_bot", Bool(FALSE)>>, <<"first_name", LongStr>>,
         <<"username", StrOfLen(2)>> >>)

BotUser == Obj(<< <<"id", Num(9)>>, <<"is_bot", Bool(TRUE)>>, <<"username", StrOfLen(1)>> >>)

Chat1 == Obj(<< <<"id", Num(-4)>>, <<"type", Str(<<"p">>)>> >>)

Payment ==
  Obj(<< <<"currency", Str(<<"U", "S", "D">>)>>, <<"total_amount", Num(500)>>,
         <<"invoice_payload", LongStr>>, <<"telegram_payment_charge_id", Str(<<"t", "1">>)>>,
         <<"provider_payment_charge_id", Str(<<"p", "1">>)>> >>)

\* who sent the message, in which chat and when: nothing, a user, the bot itself
Senders == {<<Undef, Undef, Undef>>, <<User1, Chat1, Num(8)>>, <<BotUser, Chat1, Undef>>}

Texts == {Undef, StrOfLen(0), StrOfLen(2), LongStr}

Photos == {Undef, Arr(<<MediaItem, MediaItem>>), Arr(<<MediaItem, Null>>)}

Messages ==
  {Mk(<< <<"from", s[1]>>, <<"chat", s[2]>>, <<"date", s[3]>>, <<"text", t>>,
         <<"photo", p>>, <<"successful_payment", sp>> >>) :
     s \in Senders, t \in Texts, p \in Photos, sp \in {Undef, Payment}}

TextMessage ==
  Mk(<< <<"from", User1>>, <<"chat", Chat1>>, <<"date", Num(8)>>, <<"text", StrOfLen(2)>> >>)

CallbackQuery ==
  Obj(<< <<"id", StrOfLen(1)>>, <<"from", User1>>, <<"data", LongStr>>,
         <<"message", Mk(<< <<"from", BotUser>>, <<"chat", Chat1>>, <<"date", Num(6)>> >>)>> >>)

OtherUpdates ==
  {Obj(<< <<"callback_query", CallbackQuery>> >>),
   Obj(<< <<"inline_query", Obj(<< <<"from", User1>>, <<"query", LongStr>> >>)>> >>),
   Obj(<< <<"pre_checkout_query",
            Obj(<< <<"id", StrOfLen(1)>>, <<"from", User1>>, <<"currency", Str(<<"U", "S", "D">>)>>,
                   <<"total_amount", Num(500)>>, <<"invoice_payload", LongStr>> >>)>> >>),
   Obj(<< <<"shipping_query",
            Obj(<< <<"id", StrOfLen(1)>>, <<"from", User1>>, <<"invoice_payload", LongStr>> >>)>> >>),
   Obj(<< <<"edited_message", TextMessage>> >>),
   Obj(<< <<"chat_member", Obj(<< <<"from", User1>>, <<"chat", Chat1>>, <<"date", Num(7)>> >>)>> >>),
   Obj(<< <<"poll", Obj(<< <<"question", LongStr>>, <<"options", Arr(<<>>)>> >>)>> >>),
   Obj(<< <<"message", Mk(<< <<"from", User1>>, <<"chat", Chat1>>, <<"date", Num(8)>>,
                             <<"poll", Obj(<< <<"question", StrOfLen(2)>> >>)>> >>)>> >>),
   Obj(<< <<"message", Mk(<< <<"from", User1>>, <<"chat", Chat1>>, <<"date", Num(8)>>,
                             <<"sticker", MediaItem>>, <<"tags", Arr(<<LongStr>>)>> >>)>> >>),
   Obj(<< <<"message", TextMessage>>, <<"callback_query", CallbackQuery>> >>),
   Obj(<< <<"update_id", Num(1)>>, <<"foo", Num(1)>> >>),
   Obj(<<>>)}

Updates == {Obj(<< <<"message", msg>> >>) : msg \in Messages} \cup OtherUpdates

\* the contexts a middleware invocation is given; the last has no update at all
Events == {[update |-> u] : u \in Updates} \cup {[update |-> Undef]}

\* the values a key the classifiers test may hold: objects, an empty
\* sequence, and the scalars JavaScript takes for false or for true
ShapeMessages ==
  {Mk(<< <<"text", tx>>, <<"photo", ph>>, <<"successful_payment", sp>> >>) :
     tx \in {Undef, StrOfLen(0), StrOfLen(2)},
     ph \in {Undef, Arr(<<>>), Arr(<<MediaItem>>)},
     sp \in {Undef, Null, Payment}}

ShapeUpdates ==
  {Mk(<< <<"message", m>>, <<"callback_query", cq>>, <<"poll", pl>> >>) :
     m \in ShapeMessages \cup {Undef, Null, Num(0), Num(1), StrOfLen(0)},
     cq \in {Undef, Bool(FALSE), CallbackQuery},
     pl \in {Undef, Num(0), Obj(<< <<"question", StrOfLen(2)>> >>)}}

\* ctx.update of the events given to the classifiers; Undef: no update
ShapeInputs == ShapeUpdates \cup {Undef}

\* Math.floor(Date.now() / 1000) at the moment the record is composed
Clock == {41, 42}

\* the number of events the bot runtime hands to the middleware
MaxEvents == 2

Invs == {1, 2}

\* the local state of an invocation that has not started
Idle ==
  [pc |-> "idle", ctx |-> [update |-> Undef], nextCalled |-> FALSE,
   payload |-> Unset, body |-> Unset, posts |-> 0,
   timer |-> "none", aborted |-> FALSE, error |-> "none", logged |-> FALSE]

VARIABLES
  x, depth, fn, r1, r2,   \* the pure functions: input tree, its depth, function applied, results
  bot,                    \* the Telegraf bot handle: [botInfo |-> ...]
  options,                \* [includeRawUpdate, log]; maxTextLength is MaxTextLength
  slots,                  \* the invocations that may run (and so overlap)
  started,                \* the number of events handed to the middleware so far
  posted,                 \* the number of POST requests made to the endpoint so far
  inv                     \* inv[i]: the local state of invocation i

pureVars == <<x, depth, fn, r1, r2>>

config == <<bot, options, slots>>

mwVars == <<bot, options, slots, started, posted, inv>>

vars == <<x, depth, fn, r1, r2, bot, options, slots, started, posted, inv>>

InitMiddleware ==
  /\ bot \in {[botInfo |-> Undef],
              [botInfo |-> Obj(<< <<"id", Num(9)>>, <<"username", StrOfLen(1)>> >>)]}
  /\ options \in [includeRawUpdate : BOOLEAN, log : BOOLEAN]
  /\ started = 0
  /\ posted = 0
  /\ inv = [i \in Invs |-> Idle]

PureIdle ==
  /\ x = Null
  /\ depth = 0
  /\ fn = "none"
  /\ r1 = Unset
  /\ r2 = Unset

MiddlewareIdle ==
  /\ bot = [botInfo |-> Undef]
  /\ options = [includeRawUpdate |-> FALSE, log |-> FALSE]
  /\ slots = {}
  /\ started = 0
  /\ posted = 0
  /\ inv = [i \in Invs |-> Idle]

InitPure ==
  /\ x \in Leaves
  /\ depth = 0
  /\ fn = "none"
  /\ r1 = Unset
  /\ r2 = Unset
  /\ MiddlewareIdle

Wrap ==
  /\ fn = "none"
  /\ depth < MaxDepth
  /\ x' \in Wraps(x)
  /\ depth' = depth + 1
  /\ UNCHANGED <<fn, r1, r2>>
  /\ UNCHANGED mwVars

Call_removeNulls ==
  /\ fn = "none"
  /\ fn' = "removeNulls"
  /\ r1' = removeNulls(x)
  /\ UNCHANGED <<x, depth, r2>>
  /\ UNCHANGED mwVars

Again_removeNulls ==
  /\ fn = "removeNulls"
  /\ r2 = Unset
  /\ r2' = removeNulls(r1)
  /\ UNCHANGED <<x, depth, fn, r1>>
  /\ UNCHANGED mwVars

Call_removeNulls_v2 ==
  /\ fn = "none"
  /\ fn' = "removeNulls_v2"
  /\ r1' = removeNulls_v2(x)
  /\ UNCHANGED <<x, depth, r2>>
  /\ UNCHANGED mwVars

Again_removeNulls_v2 ==
  /\ fn = "removeNulls_v2"
  /\ r2 = Unset
  /\ r2' = removeNulls_v2(r1)
  /\ UNCHANGED <<x, depth, fn, r1>>
  /\ UNCHANGED mwVars

Call_sanitizeUpdate ==
  /\ fn = "none"
  /\ fn' = "sanitizeUpdate"
  /\ r1' = sanitizeUpdate(x, MaxTextLength)
  /\ UNCHANGED <<x, depth, r2>>
  /\ UNCHANGED mwVars

Call_safeText ==
  /\ fn = "none"
  /\ fn' = "safeText"
  /\ r1' = safeText(x, MaxTextLength)
  /\ UNCHANGED <<x, depth, r2>>
  /\ UNCHANGED mwVars

NextPure ==
  \/ Wrap
  \/ Call_removeNulls
  \/ Again_removeNulls
  \/ Call_removeNulls_v2
  \/ Again_removeNulls_v2
  \/ Call_sanitizeUpdate
  \/ Call_safeText

SpecPure == InitPure /\ [][NextPure]_vars

(***************************************************************************)
(* The classifiers applied to an event: x is ctx.update                    *)
(***************************************************************************)
InitClassify ==
  /\ x \in ShapeInputs
  /\ depth = 0
  /\ fn = "none"
  /\ r1 = Unset
  /\ r2 = Unset
  /\ MiddlewareIdle

Call_detectEventType ==
  /\ fn = "none"
  /\ fn' = "detectEventType"
  /\ r1' = detectEventType([update |-> x])
  /\ UNCHANGED <<x, depth, r2>>
  /\ UNCHANGED mwVars

Call_detectEventType_v1 ==
  /\ fn = "none"
  /\ fn' = "detectEventType_v1"
  /\ r1' = detectEventType_v1([update |-> x])
  /\ UNCHANGED <<x, depth, r2>>
  /\ UNCHANGED mwVars

NextClassify ==
  \/ Call_detectEventType
  \/ Call_detectEventType_v1

SpecClassify == InitClassify /\ [][NextClassify]_vars

(***************************************************************************)
(* The middleware of part_000 (lines 28-76), one action per step           *)
(* between two awaits.                                                     *)
(***************************************************************************)
\* the runtime invokes the middleware for an event: await next() calls the
\* downstream handler at once
Arrive(i, c) ==
  /\ i \in slots
  /\ inv[i].pc = "idle"
  /\ started < MaxEvents
  /\ started' = started + 1
  /\ inv' = [inv EXCEPT ![i] = [Idle EXCEPT !.pc = "awaitNext", !.ctx = c, !.nextCalled = TRUE]]
  /\ UNCHANGED <<config, posted, pureVars>>

\* the downstream handler completes
NextResolves(i) ==
  /\ inv[i].pc = "awaitNext"
  /\ inv' = [inv EXCEPT ![i].pc = "build"]
  /\ UNCHANGED <<config, started, posted, pureVars>>

\* the downstream handler fails: its error is the middleware's result
NextRejects(i) ==
  /\ inv[i].pc = "awaitNext"
  /\ inv' = [inv EXCEPT ![i].pc = "rejected"]
  /\ UNCHANGED <<config, started, posted, pureVars>>

\* a middleware that keeps the context in a variable outside the callback:
\* after the await it composes the record of the invocation that arrived
\* last, not its own
Build_sharedCtx(i) ==
  /\ inv[i].pc = "build"
  /\ \E now \in Clock, j \in Invs :
       /\ inv[j].pc # "idle"
       /\ LET payload == buildPayload(inv[j].ctx, bot, options.includeRawUpdate, MaxTextLength, now)
          IN /\ inv' = [inv EXCEPT ![i] =
                       IF payload = Throw
                         THEN [@ EXCEPT !.pc = "done", !.error = "Error building payload"]
                         ELSE [@ EXCEPT !.pc = "awaitFetch", !.payload = payload,
                                        !.body = JSONstringify(payload), !.posts = @ + 1,
                                        !.timer = "armed"]]
             /\ posted' = IF payload = Throw THEN posted ELSE posted + 1
  /\ UNCHANGED <<config, started, pureVars>>

\* lines 31-57: classify, compose, arm the timer and start the POST; an
\* exception is caught at line 73 and reported
Build(i) ==
  /\ inv[i].pc = "build"
  /\ \E now \in Clock :
       LET payload == buildPayload(inv[i].ctx, bot, options.includeRawUpdate, MaxTextLength, now)
       IN /\ inv' = [inv EXCEPT ![i] =
                       IF payload = Throw
                         THEN [@ EXCEPT !.pc = "done", !.error = "Error building payload"]
                         ELSE [@ EXCEPT !.pc = "awaitFetch", !.payload = payload,
                                        !.body = JSONstringify(payload), !.posts = @ + 1,
                                        !.timer = "armed"]]
          /\ posted' = IF payload = Throw THEN posted ELSE posted + 1
  /\ UNCHANGED <<config, started, pureVars>>

\* lines 59-65: the POST completed: the timer is cleared, the record logged
FetchResolves(i) ==
  /\ inv[i].pc = "awaitFetch"
  /\ ~inv[i].aborted
  /\ inv' = [inv EXCEPT ![i] = [@ EXCEPT !.pc = "done", !.timer = "cleared",
                                          !.logged = options.log]]
  /\ UNCHANGED <<config, started, posted, pureVars>>

\* a middleware that sends the record once more when the POST fails
FetchRejects_retry(i) ==
  /\ inv[i].pc = "awaitFetch"
  /\ ~inv[i].aborted
  /\ inv' = [inv EXCEPT ![i] = [@ EXCEPT !.posts = @ + 1, !.error = "Error sending event"]]
  /\ posted' = posted + 1
  /\ inv[i].posts < 2
  /\ UNCHANGED <<config, started, pureVars>>

\* lines 66-71: the POST failed on the network: reported, the timer left armed
FetchRejects(i) ==
  /\ inv[i].pc = "awaitFetch"
  /\ ~inv[i].aborted
  /\ inv' = [inv EXCEPT ![i] = [@ EXCEPT !.pc = "done", !.error = "Error sending event"]]
  /\ UNCHANGED <<config, started, posted, pureVars>>

\* line 46: timeoutMs elapsed: controller.abort()
TimerFires(i) ==
  /\ inv[i].timer = "armed"
  /\ inv' = [inv EXCEPT ![i] = [@ EXCEPT !.timer = "fired", !.aborted = TRUE]]
  /\ UNCHANGED <<config, started, posted, pureVars>>

\* lines 66-68: the aborted POST rejects with an AbortError: reported
AbortRejects(i) ==
  /\ inv[i].pc = "awaitFetch"
  /\ inv[i].aborted
  /\ inv' = [inv EXCEPT ![i] = [@ EXCEPT !.pc = "done", !.error = "Request timed out"]]
  /\ UNCHANGED <<config, started, posted, pureVars>>

\* the invocation's promise has settled and no timer of it is pending
Return(i) ==
  /\ inv[i].pc \in {"done", "rejected"}
  /\ inv[i].timer # "armed"
  /\ inv' = [inv EXCEPT ![i] = Idle]
  /\ UNCHANGED <<config, started, posted, pureVars>>

Init ==
  /\ InitMiddleware
  /\ slots = {1}
  /\ PureIdle

Next ==
  \E i \in Invs :
    \/ \E c \in Events : Arrive(i, c)
    \/ NextResolves(i)
    \/ NextRejects(i)
    \/ Build(i)
    \/ FetchResolves(i)
    \/ FetchRejects(i)
    \/ TimerFires(i)
    \/ AbortRejects(i)
    \/ Return(i)

Spec == Init /\ [][Next]_vars

\* the timer callback and the rejection of an aborted request are run by the
\* event loop; the network and the downstream handler owe nothing
FairSpec == Spec /\ \A i \in Invs : WF_vars(TimerFires(i)) /\ WF_vars(AbortRejects(i))

(***************************************************************************)
(* Overlapping invocations: the runtime hands over an event while the      *)
(* invocation for an earlier one waits on next() or on the POST.           *)
(***************************************************************************)
OverlapEvents ==
  {[update |-> Obj(<< <<"message", Mk(<< <<"from", User1>>, <<"chat", Chat1>>, <<"date", Num(8)>>,
                                         <<"text", LongStr>>,
                                         <<"photo", Arr(<<MediaItem, MediaItem>>)>> >>)>> >>)],
   [update |-> Obj(<< <<"message", Mk(<< <<"from", BotUser>>, <<"chat", Chat1>>,
                                         <<"photo", Arr(<<MediaItem, Null>>)>> >>)>> >>)],
   [update |-> Undef]}

InitOverlap ==
  /\ InitMiddleware
  /\ slots = Invs
  /\ PureIdle

NextOverlap ==
  \E i \in Invs :
    \/ \E c \in OverlapEvents : Arrive(i, c)
    \/ NextResolves(i)
    \/ NextRejects(i)
    \/ Build(i)
    \/ FetchResolves(i)
    \/ FetchRejects(i)
    \/ TimerFires(i)
    \/ AbortRejects(i)
    \/ Return(i)

SpecOverlap == InitOverlap /\ [][NextOverlap]_vars

(***************************************************************************)
(* The middleware of the first iteration (src/index.js:203-226)            *)
(***************************************************************************)
\* lines 205-219: compose the record (outside any try), log it, start the
\* POST; an exception of safeCtx is the middleware's result
Arrive_v1(i, c) ==
  /\ i \in slots
  /\ inv[i].pc = "idle"
  /\ started < MaxEvents
  /\ started' = started + 1
  /\ \E now \in Clock :
       LET payload == safeCtx_v1(c, bot, now)
       IN /\ inv' = [inv EXCEPT ![i] =
                       IF payload = Throw
                         THEN [Idle EXCEPT !.pc = "rejected", !.ctx = c]
                         ELSE [Idle EXCEPT !.pc = "awaitFetch", !.ctx = c, !.payload = payload,
                                           !.logged = options.log,
                                           !.body = JSONstringify(payload), !.posts = 1]]
          /\ posted' = IF payload = Throw THEN posted ELSE posted + 1
  /\ UNCHANGED <<config, pureVars>>

\* line 224 after the POST completed: return next()
FetchResolves_v1(i) ==
  /\ inv[i].pc = "awaitFetch"
  /\ inv' = [inv EXCEPT ![i] = [@ EXCEPT !.pc = "awaitNext", !.nextCalled = TRUE]]
  /\ UNCHANGED <<config, started, posted, pureVars>>

\* lines 220-224: the POST failed: reported, then return next()
FetchRejects_v1(i) ==
  /\ inv[i].pc = "awaitFetch"
  /\ inv' = [inv EXCEPT ![i] = [@ EXCEPT !.pc = "awaitNext", !.nextCalled = TRUE,
                                          !.error = "Failed to send event"]]
  /\ UNCHANGED <<config, started, posted, pureVars>>

NextResolves_v1(i) ==
  /\ inv[i].pc = "awaitNext"
  /\ inv' = [inv EXCEPT ![i].pc = "done"]
  /\ UNCHANGED <<config, started, posted, pureVars>>

Next_v1 ==
  \E i \in Invs :
    \/ \E c \in Events : Arrive_v1(i, c)
    \/ FetchResolves_v1(i)
    \/ FetchRejects_v1(i)
    \/ NextResolves_v1(i)
    \/ NextRejects(i)
    \/ Return(i)

Spec_v1 == Init /\ [][Next_v1]_vars

(***************************************************************************)
(* The middleware of the previous iteration (src/index.js:26-72): the      *)
(* steps of the current one, with its own composer and one failure report  *)
(***************************************************************************)
\* ctx.telegram, the API client the composer is given as the bot: it has
\* the bot's identity or it has none
Telegrams == {Obj(<<>>), Obj(<< <<"botInfo", Obj(<< <<"id", Num(9)>>, <<"username", StrOfLen(1)>> >>)>> >>)}

\* lines 30-58: classify, compose, arm the timer and start the POST
Build_v2(i) ==
  /\ inv[i].pc = "build"
  /\ \E now \in Clock, telegram \in Telegrams :
       LET payload == buildPayload_v2(inv[i].ctx, telegram, options.includeRawUpdate, MaxTextLength, now)
       IN /\ inv' = [inv EXCEPT ![i] =
                       IF payload = Throw
                         THEN [@ EXCEPT !.pc = "done", !.error = "Error building payload"]
                         ELSE [@ EXCEPT !.pc = "awaitFetch", !.payload = payload,
                                        !.body = JSONstringify(payload), !.posts = @ + 1,
                                        !.timer = "armed"]]
          /\ posted' = IF payload = Throw THEN posted ELSE posted + 1
  /\ UNCHANGED <<config, started, pureVars>>

\* lines 66-68: the aborted POST rejects: reported like any failed POST
AbortRejects_v2(i) ==
  /\ inv[i].pc = "awaitFetch"
  /\ inv[i].aborted
  /\ inv' = [inv EXCEPT ![i] = [@ EXCEPT !.pc = "done", !.error = "Error sending event"]]
  /\ UNCHANGED <<config, started, posted, pureVars>>

Next_v2 ==
  \E i \in Invs :
    \/ \E c \in Events : Arrive(i, c)
    \/ NextResolves(i)
    \/ NextRejects(i)
    \/ Build_v2(i)
    \/ FetchResolves(i)
    \/ FetchRejects(i)
    \/ TimerFires(i)
    \/ AbortRejects_v2(i)
    \/ Return(i)

Spec_v2 == Init /\ [][Next_v2]_vars

(***************************************************************************)
(* Properties of the pure functions, checked under SpecPure                *)
(***************************************************************************)

\* C3: pruning is idempotent: removeNulls(removeNulls(x)) = removeNulls(x)
\* for every tree x, for the pruner of src/unnamed/part_000 and for the pruner of
\* index.js:182 alike.
C3_PruneIdempotent ==
  (fn \in {"removeNulls", "removeNulls_v2"} /\ r2 # Unset) => r2 = r1

\* a tree of full depth that lost something to the first pruning, pruned twice
C3_Witness ==
  /\ fn = "removeNulls"
  /\ depth = MaxDepth
  /\ r1 # x
  /\ r2 # Unset

\* the marker sanitizeUpdate appends has 14 code units
MarkerLen == Len(TruncationMarker)

\* what the claim allows for a string s redacted to r under the bound max,
\* with a marker of markerLen code units (0: none is appended)
Redacted(s, r, max, markerLen) ==
  IF Len(s.s) > max
    THEN /\ r.t = "str"
         /\ Len(r.s) = max + markerLen
         /\ SubSeq(r.s, 1, max) = SubSeq(s.s, 1, max)
    ELSE r = s

RECURSIVE StringsLimited(_, _)
\* every string that is the value of a key, at any depth the sanitizer
\* walks (a media value is replaced, not walked), is redacted in the output
StringsLimited(in, out) ==
  IF in.t = "arr"
    THEN /\ out.t = "arr"
         /\ Len(out.items) = Len(in.items)
         /\ \A i \in 1..Len(in.items) : StringsLimited(in.items[i], out.items[i])
  ELSE IF in.t = "obj"
    THEN /\ out.t = "obj"
         /\ \A i \in 1..Len(in.e) :
              LET k == in.e[i][1]
                  val == in.e[i][2]
              IN IF val.t = "str" THEN Redacted(val, Get(out, k), MaxTextLength, MarkerLen)
                 ELSE IF k \in MediaKeys THEN TRUE
                 ELSE StringsLimited(val, Get(out, k))
  ELSE TRUE

\* C4: a string longer than maxLength is redacted to exactly maxLength code
\* units by safeText, and to exactly maxLength plus the marker by the string
\* branch of sanitizeUpdate; a string of at most maxLength is unchanged.
C4_TruncationBound ==
  /\ (fn = "safeText" /\ x.t = "str") => Redacted(x, r1, MaxTextLength, 0)
  /\ (fn = "sanitizeUpdate" /\ r1 # Throw) => StringsLimited(x, r1)

\* a long string under a key of a nested mapping, sanitized
C4_Witness ==
  /\ fn = "sanitizeUpdate"
  /\ r1 # Throw
  /\ x.t = "obj"
  /\ \E i \in 1..Len(x.e) :
       /\ x.e[i][2].t = "obj"
       /\ \E j \in 1..Len(x.e[i][2].e) :
            /\ x.e[i][2].e[j][2].t = "str"
            /\ Len(x.e[i][2].e[j][2].s) > MaxTextLength

\* the media-like key set as the claim lists it
ClaimMediaKeys ==
  {"photo", "video", "document", "voice", "sticker", "animation", "audio",
   "video_note", "new_chat_photo", "thumb", "thumbnail"}

IdKeys == {"file_id", "file_unique_id"}

\* an object none of whose sub-fields is anything but file_id and file_unique_id
IsIdPair(v) == v.t = "obj" /\ \A i \in 1..Len(v.e) : v.e[i][1] \in IdKeys

\* the identifier pair of the raw item
PairOf(raw, pair) ==
  /\ IsIdPair(pair)
  /\ Get(pair, "file_id") = Get(raw, "file_id")
  /\ Get(pair, "file_unique_id") = Get(raw, "file_unique_id")

RECURSIVE MediaStripped(_, _)
\* at every depth, the output value under a media-like key is the identifier
\* pair of the raw object, or the sequence of the pairs of the raw items
MediaStripped(in, out) ==
  IF in.t = "arr"
    THEN /\ out.t = "arr"
         /\ Len(out.items) = Len(in.items)
         /\ \A i \in 1..Len(in.items) : MediaStripped(in.items[i], out.items[i])
  ELSE IF in.t = "obj"
    THEN /\ out.t = "obj"
         /\ \A i \in 1..Len(in.e) :
              LET k == in.e[i][1]
                  val == in.e[i][2]
                  o == Get(out, k)
              IN IF k \in ClaimMediaKeys
                   THEN CASE val.t = "arr" ->
                               /\ o.t = "arr"
                               /\ Len(o.items) = Len(val.items)
                               /\ \A j \in 1..Len(val.items) : PairOf(val.items[j], o.items[j])
                          [] val.t = "obj" -> PairOf(val, o)
                          [] OTHER -> ~IsObjectLike(o)
                   ELSE MediaStripped(val, o)
  ELSE TRUE

\* C5: under every media-like key, at any depth, sanitizeUpdate's output
\* holds nothing but file_id and file_unique_id; a sequence of n items
\* becomes the sequence of their n identifier pairs in the same order.
C5_MediaStripped ==
  (fn = "sanitizeUpdate" /\ r1 # Throw) => MediaStripped(x, r1)

\* a photo sequence of two items with extra sub-fields, sanitized
C5_Witness ==
  /\ fn = "sanitizeUpdate"
  /\ r1 # Throw
  /\ x.t = "obj"
  /\ \E i \in 1..Len(x.e) : x.e[i] = <<"photo", Arr(<<MediaItem, MediaItem>>)>>

(***************************************************************************)
(* Properties of the middleware                                            *)
(***************************************************************************)
\* the invocations whose record has been composed and handed to fetch
Composed(i) == inv[i].payload # Unset

\* ctx.update.message of invocation i
MessageOf(i) == OptGet(inv[i].ctx.update, "message")

\* C1: an event whose message carries both successful_payment and text is
\* classified successful_payment, never message or text_message.  Checked
\* under Spec (src/unnamed/part_000) it fails; under Spec_v1 (index.js:234) it holds.
C1_PaymentWins ==
  \A i \in Invs :
    (Composed(i) /\ HasKey(MessageOf(i), "successful_payment") /\ HasKey(MessageOf(i), "text"))
      => Get(inv[i].payload, "event_type") = Lit("successful_payment")

\* null, undefined, an empty sequence or an empty mapping
IsEmptyValue(v) ==
  \/ IsNullish(v)
  \/ v.t = "arr" /\ Len(v.items) = 0
  \/ v.t = "obj" /\ Len(v.e) = 0

RECURSIVE NoEmptyValue(_)
\* no key, at any depth, holds an empty value
NoEmptyValue(v) ==
  IF v.t = "obj"
    THEN \A j \in 1..Len(v.e) : ~IsEmptyValue(v.e[j][2]) /\ NoEmptyValue(v.e[j][2])
  ELSE IF v.t = "arr"
    THEN \A j \in 1..Len(v.items) : NoEmptyValue(v.items[j])
  ELSE TRUE

\* C2: the record the middleware serializes and sends has no key, at any
\* depth, whose value is null, undefined, an empty sequence or an empty
\* mapping.  It fails under Spec: bot, user and chat are sent as {} and
\* tg_date as null.
C2_NoNullInRecord ==
  \A i \in Invs : Composed(i) => NoEmptyValue(inv[i].payload)

\* C6: a failure of the telemetry (classifying, composing, serializing,
\* delivering) never keeps the downstream handler from being called and
\* never is the middleware's result: an invocation that settled has called
\* next, and it is rejected only by the handler's own failure.  It holds
\* under Spec and fails under Spec_v1, where safeCtx runs before next()
\* and outside the try.
C6_FailureIsolation ==
  \A i \in Invs : inv[i].pc \in {"done", "rejected"} => inv[i].nextCalled

\* C7: a POST that is pending is under a running abort timer, or has been
\* aborted by it: it cannot stay pending past timeoutMs.  It holds under
\* Spec and fails under Spec_v1, whose fetch has no signal and no timer
\* and whose next() waits for it.
C7_BoundedDelivery ==
  \A i \in Invs : inv[i].pc = "awaitFetch" => (inv[i].timer = "armed" \/ inv[i].aborted)

\* the liveness reading of C7 for src/unnamed/part_000, under FairSpec: a pending
\* delivery ends (delivered, failed or timed out)
C7_DeliveryEnds ==
  \A i \in Invs : (inv[i].pc = "awaitFetch") ~> (inv[i].pc = "done")

\* the invocations composed with the snapshot on, whose sanitizing throws
SanitizeThrows(i) ==
  /\ options.includeRawUpdate
  /\ inv[i].pc \in {"awaitFetch", "done"}
  /\ ~IsNullish(inv[i].ctx.update)
  /\ sanitizeUpdate(inv[i].ctx.update, MaxTextLength) = Throw

\* C8: when sanitizing the update throws with includeRawUpdate on, the
\* record has no raw_update, is otherwise the record composed with the
\* snapshot off, and is sent.
C8_SanitizeFailureContained ==
  \A i \in Invs :
    SanitizeThrows(i) =>
      /\ inv[i].posts = 1
      /\ Composed(i)
      /\ ~HasKey(inv[i].payload, "raw_update")
      /\ HasKey(inv[i].payload, "event_type")
      /\ \E now \in Clock :
           inv[i].payload = buildPayload(inv[i].ctx, bot, FALSE, MaxTextLength, now)
      /\ inv[i].body = JSONstringify(inv[i].payload)

\* a message from a user with a photo sequence holding a null: sent with its
\* user, chat and text, without snapshot
C8_Witness ==
  \E i \in Invs :
    /\ SanitizeThrows(i)
    /\ Get(MessageOf(i), "photo") = Arr(<<MediaItem, Null>>)
    /\ HasKey(inv[i].payload, "user")
    /\ HasKey(inv[i].payload, "message")
    /\ inv[i].posts = 1

\* the closed enumeration of src/unnamed/part_000
EventTags == {Lit(EventKeys[j]) : j \in 1..Len(EventKeys)} \cup {Lit("unknown")}

\* C9: the classifier is total: whatever the event, also one without an
\* update object, the invocation that reached the classifier has a record
\* with exactly one tag of the enumeration.  It fails under Spec: without
\* an update detectEventType throws and no record is composed.
C9_ClassifierTotal ==
  \A i \in Invs :
    inv[i].pc \in {"awaitFetch", "done"} =>
      Composed(i) /\ Get(inv[i].payload, "event_type") \in EventTags

\* the financial categories (src/index.js:361) that the classifier of
\* part_000 can return
FinancialTags == {Lit("pre_checkout_query"), Lit("shipping_query")}

RECURSIVE StringsWithin(_, _)
\* every string of the tree has at most max code units
StringsWithin(v, max) ==
  IF v.t = "str" THEN Len(v.s) <= max
  ELSE IF v.t = "obj" THEN \A j \in 1..Len(v.e) : StringsWithin(v.e[j][2], max)
  ELSE IF v.t = "arr" THEN \A j \in 1..Len(v.items) : StringsWithin(v.items[j], max)
  ELSE TRUE

\* the strings of the record that come from the event (event_type and
\* media_type are literals of the program)
EventData(payload) ==
  Obj(SelectSeq(payload.e, LAMBDA kv : kv[1] \notin {"event_type", "media_type"}))

\* C10: in the record of a non-financial event every string taken from the
\* event, the raw_update snapshot included, has at most maxTextLength code
\* units.  It fails under Spec: raw_update is the whole serialized
\* snapshot, and the names of the user and the chat are copied uncut.
C10_StringsBounded ==
  \A i \in Invs :
    (Composed(i) /\ Get(inv[i].payload, "event_type") \notin FinancialTags)
      => StringsWithin(EventData(inv[i].payload), MaxTextLength)

\* the part of C10 about the snapshot alone
C10_SnapshotBounded ==
  \A i \in Invs :
    (Composed(i) /\ Get(inv[i].payload, "event_type") \notin FinancialTags
       /\ HasKey(inv[i].payload, "raw_update"))
      => Len(Get(inv[i].payload, "raw_update").s) <= MaxTextLength

(***************************************************************************)
(* Properties of the classifiers, checked under SpecClassify               *)
(***************************************************************************)
\* the keys the classifiers test on the update and on the message
TestedKeys == {EventKeys[j] : j \in 1..Len(EventKeys)} \cup {EventKeys_v1[j] : j \in 1..Len(EventKeys_v1)}

TestedMessageKeys == {MessageKinds_v1[j][1] : j \in 1..Len(MessageKinds_v1)}

\* the tested keys that are present: they hold a value other than null,
\* whatever it is
PresentKeys(u) == {k \in TestedKeys : ~IsNullish(Get(u, k))}

PresentMessageKeys(u) == {k \in TestedMessageKeys : ~IsNullish(Get(Get(u, "message"), k))}

SamePresence(u, v) ==
  /\ IsNullish(u) = IsNullish(v)
  /\ PresentKeys(u) = PresentKeys(v)
  /\ PresentMessageKeys(u) = PresentMessageKeys(v)

\* the tested keys that hold a value JavaScript takes for true
TruthyKeys(u) == {k \in TestedKeys : Truthy(Get(u, k))}

TruthyMessageKeys(u) == {k \in TestedMessageKeys : Truthy(Get(Get(u, "message"), k))}

SameTruthiness(u, v) ==
  /\ IsNullish(u) = IsNullish(v)
  /\ TruthyKeys(u) = TruthyKeys(v)
  /\ TruthyMessageKeys(u) = TruthyMessageKeys(v)

\* the result of the classifier that was applied, on another update
Reclassify(u) ==
  IF fn = "detectEventType" THEN detectEventType([update |-> u])
  ELSE detectEventType_v1([update |-> u])

Classified == fn \in {"detectEventType", "detectEventType_v1"}

RecordAsAlone(i) ==
  \E now \in Clock :
    /\ inv[i].payload = buildPayload(inv[i].ctx, bot, options.includeRawUpdate, MaxTextLength, now)
    /\ inv[i].body = JSONstringify(inv[i].payload)

\* a step writes the state of one invocation at most, leaves the event of a
\* running invocation as it arrived, and leaves the bot and the options alone
Isolated ==
  /\ \A i, j \in Invs : (i # j /\ inv'[i] # inv[i]) => inv'[j] = inv[j]
  /\ \A i \in Invs : (inv[i].pc # "idle" /\ inv'[i].pc # "idle") => inv'[i].ctx = inv[i].ctx
  /\ bot' = bot
  /\ options' = options

\* C12: with invocations overlapping at the awaits, every invocation that
\* composed a record transmits the record it composes alone from its own
\* event; no step writes another invocation's state, the event or the options.
C12_Independence ==
  /\ [](\A i \in Invs : Composed(i) => RecordAsAlone(i))
  /\ [][Isolated]_vars

\* two invocations for different events both wait on their POST
C12_Witness ==
  /\ inv[1].pc = "awaitFetch"
  /\ inv[2].pc = "awaitFetch"
  /\ inv[1].ctx # inv[2].ctx
  /\ inv[1].body # inv[2].body

(***************************************************************************)
(* Properties of delivery, checked under Spec and Spec_v2                  *)
(***************************************************************************)
\* a POST is made by the step that composed the record, and by no other
PostOnlyAtBuild ==
  posted' # posted =>
    /\ posted' = posted + 1
    /\ \E i \in Invs : inv[i].pc = "build" /\ inv'[i].pc = "awaitFetch" /\ inv[i].posts = 0

\* C13: an invocation whose record was built made exactly one POST, also
\* after the POST failed or timed out; one that built none made none; no
\* POST is made at any other step, so the endpoint never gets more POSTs
\* than events were handed over.
C13_OnePostPerEvent ==
  /\ [](\A i \in Invs :
          /\ (inv[i].pc \in {"awaitFetch", "done"} /\ Composed(i)) => inv[i].posts = 1
          /\ ~Composed(i) => inv[i].posts = 0)
  /\ [](posted <= started)
  /\ [][PostOnlyAtBuild]_vars

\* a second event's delivery timed out after the first one's had failed:
\* two POSTs in all
C13_Witness ==
  /\ posted = 2
  /\ started = 2
  /\ \E i \in Invs : inv[i].pc = "done" /\ inv[i].posts = 1 /\ inv[i].error = "Request timed out"

====
